---- MODULE Spec2Model ----
(***************************************************************************)
(* Model of static/js/main.js: the selection counter of the history page. *)
(*                                                                         *)
(* The page (DOM) is the state: the .history-form, the log_ids            *)
(* checkboxes, the optional #select_all_logs control and the               *)
(* .selected-count elements.  The script's closure (historyForm,          *)
(* checkboxes, selectAll, counter) and the listeners it registers are     *)
(* state too.  Texts are sequences of Unicode code points, so that the    *)
(* decimal rendering of the count is computed and not assumed.            *)
(*                                                                         *)
(* The host delivers one event at a time and every handler runs to        *)
(* completion: an input action changes the control and leaves the change  *)
(* event pending; Dispatch runs the listeners of the pending event.       *)
(***************************************************************************)
EXTENDS Integers, Sequences, FiniteSets, TLC

\* Bounds of the model.
MaxBoxes == 3      \* checkboxes of a small page, in every arrangement
MaxAdded == 1      \* checkboxes another script may add to a small page
WideBoxes == 10    \* checkboxes of the wide page (two-digit counts)

VARIABLES
    formPresent,       \* the page has a .history-form
    cbInForm,          \* log_ids checkbox id -> it is inside the form
    cbChecked,         \* log_ids checkbox id -> its checked property
    selectAllLoc,      \* where #select_all_logs is: "absent", "inForm", "outside"
    selectAllChecked,  \* checked property of #select_all_logs
    textContent,       \* .selected-count node -> its textContent
    loaded,            \* DOMContentLoaded has been delivered
    historyForm,       \* closure: const historyForm
    checkboxes,        \* closure: const checkboxes (the snapshot, in document order)
    selectAll,         \* closure: const selectAll
    counter,           \* closure: let counter
    changeListeners,   \* checkboxes that carry the updateCounter listener
    selectAllListener, \* #select_all_logs carries the select-all listener
    error,             \* exception thrown by the script, "none" if none
    event,             \* the event pending or last dispatched
    writes             \* texts assigned to counter.textContent by the last handler

dom == <<formPresent, cbInForm, cbChecked, selectAllLoc, selectAllChecked, textContent>>
closure == <<historyForm, checkboxes, selectAll, counter>>
listeners == <<changeListeners, selectAllListener>>
vars == <<dom, closure, listeners, loaded, error, event, writes>>

Range(s) == {s[i] : i \in 1..Len(s)}

Min(S) == CHOOSE x \in S : \A y \in S : x <= y

RECURSIVE SeqOfSet(_)
\* Array.from(querySelectorAll(...)): the matches in document order (ids ascend
\* in document order).
SeqOfSet(S) == IF S = {} THEN <<>> ELSE <<Min(S)>> \o SeqOfSet(S \ {Min(S)})

\* "Ни одной записи не выбрано."
MsgNone ==
    <<1053, 1080, 32, 1086, 1076, 1085, 1086, 1081, 32, 1079, 1072, 1087, 1080,
      1089, 1080, 32, 1085, 1077, 32, 1074, 1099, 1073, 1088, 1072, 1085, 1086, 46>>

\* "Выбрана 1 запись для включения в ТЗ."
MsgOne ==
    <<1042, 1099, 1073, 1088, 1072, 1085, 1072, 32, 49, 32, 1079, 1072, 1087,
      1080, 1089, 1100, 32, 1076, 1083, 1103, 32, 1074, 1082, 1083, 1102, 1095,
      1077, 1085, 1080, 1103, 32, 1074, 32, 1058, 1047, 46>>

\* "Выбрано "
MsgManyPrefix == <<1042, 1099, 1073, 1088, 1072, 1085, 1086, 32>>

\* " записей для включения в ТЗ."
MsgManySuffix ==
    <<32, 1079, 1072, 1087, 1080, 1089, 1077, 1081, 32, 1076, 1083, 1103, 32,
      1074, 1082, 1083, 1102, 1095, 1077, 1085, 1080, 1103, 32, 1074, 32, 1058,
      1047, 46>>

RECURSIVE ToDecimalString_Reversed(_)
\* Faulty variant: the digits come out least significant first.
ToDecimalString_Reversed(n) ==
    IF n < 10 THEN <<48 + n>>
    ELSE <<48 + (n % 10)>> \o ToDecimalString_Reversed(n \div 10)

RECURSIVE ToDecimalString(_)
\* `${selected}`: Number::toString of a non-negative integer, radix 10.
ToDecimalString(n) ==
    IF n < 10 THEN <<48 + n>>
    ELSE ToDecimalString(n \div 10) \o <<48 + (n % 10)>>

\* The text updateCounter chooses for a count (main.js 29-35).
CounterText(selected) ==
    IF selected = 0 THEN MsgNone
    ELSE IF selected = 1 THEN MsgOne
    ELSE MsgManyPrefix \o ToDecimalString(selected) \o MsgManySuffix

\* checkboxes.filter(cb => cb.checked).length
Selected(cbs, chk) == Len(SelectSeq(cbs, LAMBDA b : chk[b]))

\* Faulty variant: returns early when nothing is selected, leaving the old text.
updateCounter_SkipZero(cbs, chk, tc, ctr) ==
    IF Selected(cbs, chk) = 0 THEN tc
    ELSE [tc EXCEPT ![ctr] = CounterText(Selected(cbs, chk))]

\* Faulty variant: textContent += ... instead of textContent = ...
updateCounter_Append(cbs, chk, tc, ctr) ==
    [tc EXCEPT ![ctr] = @ \o CounterText(Selected(cbs, chk))]

\* updateCounter: overwrites counter.textContent; the result is the new
\* textContent of every node.
updateCounter(cbs, chk, tc, ctr) ==
    [tc EXCEPT ![ctr] = CounterText(Selected(cbs, chk))]

\* historyForm.querySelectorAll('input[type="checkbox"][name="log_ids"]')
QueryCheckboxes(inForm) == SeqOfSet({b \in DOMAIN inForm : inForm[b]})

\* historyForm.querySelector("#select_all_logs")
QuerySelectAll(saLoc) == IF saLoc = "inForm" THEN "elem" ELSE "null"

\* Document order of the .selected-count elements a page may hold: one
\* before the form, one inside it, one after it.
NodeOrder == <<"outA", "inForm", "outB">>

\* document.querySelector(".selected-count"): the first match of the whole
\* document, "null" if there is none.
QueryCounter(tc) ==
    LET hits == {i \in 1..Len(NodeOrder) : NodeOrder[i] \in DOMAIN tc}
    IN  IF hits = {} THEN "null" ELSE NodeOrder[Min(hits)]

\* createElement("div") + historyForm.appendChild(counter): a new, empty
\* node "created", last child of the form.
CreateCounter(tc) ==
    [n \in DOMAIN tc \cup {"created"} |-> IF n = "created" THEN <<>> ELSE tc[n]]

\* Faulty variant: addEventListener is called without the guard, so a null
\* selectAll throws.
WireSelectAll_Unguarded(sa) ==
    IF sa # "null" THEN [listener |-> TRUE, error |-> "none"]
    ELSE [listener |-> FALSE, error |-> "TypeError"]

\* if (selectAll) selectAll.addEventListener(...): the guard keeps the call
\* off a null reference.
WireSelectAll(sa) ==
    IF sa # "null" THEN [listener |-> TRUE, error |-> "none"]
    ELSE [listener |-> FALSE, error |-> "none"]

\* The statements of the DOMContentLoaded handler after the early return.
SetupForm(inForm, chk, saLoc, tc) ==
    LET cbs   == QueryCheckboxes(inForm)
        sa    == QuerySelectAll(saLoc)
        found == QueryCounter(tc)
        ctr   == IF found = "null" THEN "created" ELSE found
        tc1   == IF found = "null" THEN CreateCounter(tc) ELSE tc
        tc2   == updateCounter(cbs, chk, tc1, ctr)
        wire  == WireSelectAll(sa)
    IN  [historyForm |-> "form", checkboxes |-> cbs, selectAll |-> sa,
         counter |-> ctr, textContent |-> tc2, writes |-> <<tc2[ctr]>>,
         changeListeners |-> Range(cbs), selectAllListener |-> wire.listener,
         error |-> wire.error]

\* Faulty variant: the early return is missing and the lookups fall back to
\* the document.
DOMContentLoadedHandler_NoEarlyReturn(form, inForm, chk, saLoc, tc) ==
    SetupForm(inForm, chk, saLoc, tc)

\* The DOMContentLoaded handler: if (!historyForm) return; then the setup.
DOMContentLoadedHandler(form, inForm, chk, saLoc, tc) ==
    IF ~form
    THEN [historyForm |-> "null", checkboxes |-> <<>>, selectAll |-> "null",
          counter |-> "null", textContent |-> tc, writes |-> <<>>,
          changeListeners |-> {}, selectAllListener |-> FALSE, error |-> "none"]
    ELSE SetupForm(inForm, chk, saLoc, tc)

\* Faulty variant: the checkbox listener also syncs the select-all control
\* with "every snapshot checkbox is checked".
CheckboxChangeHandler_SyncSelectAll(cbs, chk, saChecked, tc, ctr) ==
    LET tc1 == updateCounter(cbs, chk, tc, ctr)
    IN  [cbChecked |-> chk,
         selectAllChecked |-> (\A i \in 1..Len(cbs) : chk[cbs[i]]),
         textContent |-> tc1, writes |-> <<tc1[ctr]>>]

\* The change listener of a snapshot checkbox is updateCounter itself.
CheckboxChangeHandler(cbs, chk, saChecked, tc, ctr) ==
    LET tc1 == updateCounter(cbs, chk, tc, ctr)
    IN  [cbChecked |-> chk, selectAllChecked |-> saChecked,
         textContent |-> tc1, writes |-> <<tc1[ctr]>>]

\* Faulty variant: cb.checked = !cb.checked instead of cb.checked = value.
SetAll_Toggle(cbs, chk, value) ==
    [b \in DOMAIN chk |-> IF b \in Range(cbs) THEN ~chk[b] ELSE chk[b]]

\* Faulty variant: the handler queries the log_ids checkboxes again instead
\* of using the snapshot.
SetAll_LiveQuery(cbs, chk, value) ==
    [b \in DOMAIN chk |-> value]

\* checkboxes.forEach(cb => { cb.checked = value; })
SetAll(cbs, chk, value) ==
    [b \in DOMAIN chk |-> IF b \in Range(cbs) THEN value ELSE chk[b]]

\* Faulty variant: updateCounter is called inside the forEach, once per
\* checkbox.
SelectAllChangeHandler_UpdateEach(cbs, chk, saChecked, tc, ctr) ==
    LET value == saChecked
        chkAt(i) == SetAll(SubSeq(cbs, 1, i), chk, value)
        chk1  == chkAt(Len(cbs))
        log   == [i \in 1..Len(cbs) |-> CounterText(Selected(cbs, chkAt(i)))]
    IN  [cbChecked |-> chk1, selectAllChecked |-> saChecked,
         textContent |-> IF Len(cbs) = 0 THEN tc
                         ELSE [tc EXCEPT ![ctr] = log[Len(cbs)]],
         writes |-> log]

\* The change listener of #select_all_logs.
SelectAllChangeHandler(cbs, chk, saChecked, tc, ctr) ==
    LET value == saChecked
        chk1  == SetAll(cbs, chk, value)
        tc1   == updateCounter(cbs, chk1, tc, ctr)
    IN  [cbChecked |-> chk1, selectAllChecked |-> saChecked,
         textContent |-> tc1, writes |-> <<tc1[ctr]>>]

NoEvent ==
    [kind |-> "none", target |-> 0, toggled |-> FALSE,
     phase |-> "done", handler |-> "none"]

\* The pages the server may render.  A small page has up to MaxBoxes log_ids
\* checkboxes, the first k of them inside the form and the others elsewhere in
\* the document, any of them pre-checked; the select-all control and the
\* .selected-count nodes are present or absent in every combination.  The wide
\* page has WideBoxes checkboxes in the form.
SmallPage ==
    /\ formPresent \in BOOLEAN
    /\ \E n \in 0..MaxBoxes, k \in 0..MaxBoxes :
          /\ k <= n
          /\ formPresent \/ k = 0
          /\ cbChecked \in [1..n -> BOOLEAN]
          /\ cbInForm = [b \in 1..n |-> b <= k]
    /\ selectAllLoc \in {"absent", "outside"} \cup
                        (IF formPresent THEN {"inForm"} ELSE {})
    /\ selectAllChecked \in (IF selectAllLoc = "absent" THEN {FALSE} ELSE BOOLEAN)
    /\ \E N \in SUBSET (Range(NodeOrder) \ (IF formPresent THEN {} ELSE {"inForm"})) :
          textContent = [n \in N |-> <<>>]

WidePage ==
    /\ formPresent = TRUE
    /\ \E c \in BOOLEAN : cbChecked = [b \in 1..WideBoxes |-> c]
    /\ cbInForm = [b \in 1..WideBoxes |-> TRUE]
    /\ selectAllLoc = "inForm"
    /\ selectAllChecked = FALSE
    /\ textContent = [n \in {} |-> <<>>]

Init ==
    /\ SmallPage \/ WidePage
    /\ loaded = FALSE
    /\ historyForm = "null"
    /\ checkboxes = <<>>
    /\ selectAll = "null"
    /\ counter = "null"
    /\ changeListeners = {}
    /\ selectAllListener = FALSE
    /\ error = "none"
    /\ event = NoEvent
    /\ writes = <<>>

\* The browser fires DOMContentLoaded once; the handler runs to completion.
DOMContentLoaded ==
    /\ ~loaded
    /\ LET r == DOMContentLoadedHandler(formPresent, cbInForm, cbChecked,
                                        selectAllLoc, textContent)
       IN  /\ historyForm' = r.historyForm
           /\ checkboxes' = r.checkboxes
           /\ selectAll' = r.selectAll
           /\ counter' = r.counter
           /\ textContent' = r.textContent
           /\ writes' = r.writes
           /\ changeListeners' = r.changeListeners
           /\ selectAllListener' = r.selectAllListener
           /\ error' = r.error
    /\ loaded' = TRUE
    /\ event' = [kind |-> "DOMContentLoaded", target |-> 0, toggled |-> FALSE,
                 phase |-> "done", handler |-> "setup"]
    /\ UNCHANGED <<formPresent, cbInForm, cbChecked, selectAllLoc, selectAllChecked>>

Idle == loaded /\ event.phase = "done"

\* A change event on log_ids checkbox b: the user's click toggles it first
\* (toggle); a script's dispatchEvent does not.
CheckboxInput(b, toggle) ==
    /\ Idle
    /\ b \in DOMAIN cbChecked
    /\ cbChecked' = [cbChecked EXCEPT ![b] = IF toggle THEN ~@ ELSE @]
    /\ event' = [kind |-> "checkbox", target |-> b, toggled |-> toggle,
                 phase |-> "pending", handler |-> "none"]
    /\ UNCHANGED <<formPresent, cbInForm, selectAllLoc, selectAllChecked,
                   textContent, closure, listeners, loaded, error, writes>>

\* A change event on #select_all_logs, with or without the user's toggle.
SelectAllInput(toggle) ==
    /\ Idle
    /\ selectAllLoc # "absent"
    /\ selectAllChecked' = (IF toggle THEN ~selectAllChecked ELSE selectAllChecked)
    /\ event' = [kind |-> "selectAll", target |-> 0, toggled |-> toggle,
                 phase |-> "pending", handler |-> "none"]
    /\ UNCHANGED <<formPresent, cbInForm, cbChecked, selectAllLoc,
                   textContent, closure, listeners, loaded, error, writes>>

\* Another script appends a log_ids checkbox to the form after the setup.
AddCheckbox(c) ==
    /\ Idle
    /\ formPresent
    /\ Cardinality(DOMAIN cbChecked) < MaxBoxes + MaxAdded
    /\ LET b == Cardinality(DOMAIN cbChecked) + 1
       IN  /\ cbChecked' = [x \in DOMAIN cbChecked \cup {b} |->
                               IF x = b THEN c ELSE cbChecked[x]]
           /\ cbInForm' = [x \in DOMAIN cbInForm \cup {b} |->
                               IF x = b THEN TRUE ELSE cbInForm[x]]
    /\ UNCHANGED <<formPresent, selectAllLoc, selectAllChecked, textContent,
                   closure, listeners, loaded, error, event, writes>>

\* The host delivers the pending change event to the listeners of its target.
Dispatch ==
    /\ event.phase = "pending"
    /\ LET h == IF event.kind = "checkbox" /\ event.target \in changeListeners
                THEN "updateCounter"
                ELSE IF event.kind = "selectAll" /\ selectAllLoc = "inForm"
                        /\ selectAllListener
                THEN "selectAll"
                ELSE "none"
           r == IF h = "updateCounter"
                THEN CheckboxChangeHandler(checkboxes, cbChecked,
                                           selectAllChecked, textContent, counter)
                ELSE IF h = "selectAll"
                THEN SelectAllChangeHandler(checkboxes, cbChecked,
                                            selectAllChecked, textContent, counter)
                ELSE [cbChecked |-> cbChecked, selectAllChecked |-> selectAllChecked,
                      textContent |-> textContent, writes |-> <<>>]
       IN  /\ cbChecked' = r.cbChecked
           /\ selectAllChecked' = r.selectAllChecked
           /\ textContent' = r.textContent
           /\ writes' = r.writes
           /\ event' = [event EXCEPT !.phase = "done", !.handler = h]
    /\ UNCHANGED <<formPresent, cbInForm, selectAllLoc, closure, listeners,
                   loaded, error>>

Next ==
    \/ DOMContentLoaded
    \/ \E b \in 1..(WideBoxes + MaxAdded), toggle \in BOOLEAN : CheckboxInput(b, toggle)
    \/ \E toggle \in BOOLEAN : SelectAllInput(toggle)
    \/ \E c \in BOOLEAN : AddCheckbox(c)
    \/ Dispatch

Spec == Init /\ [][Next]_vars

TypeOK ==
    /\ formPresent \in BOOLEAN
    /\ loaded \in BOOLEAN
    /\ DOMAIN cbChecked = DOMAIN cbInForm
    /\ Range(checkboxes) \subseteq DOMAIN cbChecked
    /\ error \in {"none", "TypeError"}

(***************************************************************************)
(* Vocabulary of the properties.                                          *)
(***************************************************************************)

RECURSIVE DecimalValue(_)
\* The number a sequence of decimal digit characters denotes.
DecimalValue(d) ==
    IF d = <<>> THEN 0
    ELSE 10 * DecimalValue(SubSeq(d, 1, Len(d) - 1)) + (d[Len(d)] - 48)

\* text is the sentence the three-way rule dictates for the count n; for
\* n >= 2 the part between the prefix and the suffix is n in decimal,
\* without a leading zero.
ThreeWayRule(text, n) ==
    IF n = 0 THEN text = MsgNone
    ELSE IF n = 1 THEN text = MsgOne
    ELSE LET k == Len(text) - Len(MsgManyPrefix) - Len(MsgManySuffix)
             digits == SubSeq(text, Len(MsgManyPrefix) + 1, Len(MsgManyPrefix) + k)
         IN  /\ k >= 1
             /\ SubSeq(text, 1, Len(MsgManyPrefix)) = MsgManyPrefix
             /\ SubSeq(text, Len(MsgManyPrefix) + k + 1, Len(text)) = MsgManySuffix
             /\ \A i \in 1..k : digits[i] \in 48..57
             /\ digits[1] # 48
             /\ DecimalValue(digits) = n

\* The snapshot checkboxes that are checked now.
CheckedInSnapshot == {b \in Range(checkboxes) : cbChecked[b]}

\* The setup ran on a page with a form and no handler is in flight.
Settled == loaded /\ formPresent /\ event.phase = "done"

\* The text the counter node of the script shows.
CounterShown == textContent[counter]

\* The .selected-count nodes inside the form.
NodesInForm == DOMAIN textContent \cap {"inForm", "created"}

\* The log_ids checkboxes of the form that are not in the snapshot.
AddedBoxes == {b \in DOMAIN cbInForm : cbInForm[b]} \ Range(checkboxes)

\* C1: after the setup and after every handler that ran to completion, the
\* counter text is the three-way sentence for the number of snapshot
\* checkboxes checked at that moment.
C1_CounterFollowsRule ==
    Settled =>
        /\ counter \in DOMAIN textContent
        /\ ThreeWayRule(CounterShown, Cardinality(CheckedInSnapshot))

\* C1 witness: a checkbox toggle was handled and the counter shows a
\* two-digit count.
C1_Witness ==
    /\ Settled
    /\ event.kind = "checkbox" /\ event.toggled /\ event.handler = "updateCounter"
    /\ Cardinality(CheckedInSnapshot) >= 10

\* C2: after the select-all handler ran with value v, every snapshot checkbox
\* has checked = v; the counter shows the sentence for the whole snapshot
\* when v is true and the "none selected" sentence when v is false.
C2_SelectAllSetsEvery ==
    (Settled /\ event.handler = "selectAll") =>
        /\ \A i \in 1..Len(checkboxes) : cbChecked[checkboxes[i]] = selectAllChecked
        /\ selectAllChecked => ThreeWayRule(CounterShown, Len(checkboxes))
        /\ ~selectAllChecked => CounterShown = MsgNone

\* C2 witness: select-all was ticked on a page whose snapshot was partly
\* checked before, and now the three checkboxes are all checked.
C2_Witness ==
    /\ Settled /\ event.handler = "selectAll" /\ event.toggled
    /\ selectAllChecked
    /\ Len(checkboxes) = 3
    /\ CheckedInSnapshot = Range(checkboxes)

\* C5: on a page whose form holds no log_ids checkbox at the setup, the
\* script's counter node exists (created when the page had none), shows
\* "none selected" after the setup and keeps showing it whatever
\* select-all events follow.
C5_EmptyFormShowsNone ==
    (loaded /\ formPresent /\ Len(checkboxes) = 0) =>
        /\ counter \in DOMAIN textContent
        /\ CounterShown = MsgNone
        /\ (DOMAIN textContent \cap Range(NodeOrder) = {}) => counter = "created"

\* C5 witness: the form had no checkbox and no counter node, the node was
\* created, and a select-all tick has been handled.
C5_Witness ==
    /\ Settled /\ Len(checkboxes) = 0
    /\ counter = "created"
    /\ event.handler = "selectAll" /\ selectAllChecked

\* A step of the script: the DOMContentLoaded handler, or the delivery of a
\* pending change event.
ScriptStep == ~loaded \/ event.phase = "pending"

\* C3: after the setup on a page with a form, the form holds exactly one
\* .selected-count node and it is the node the script writes to.
C3_OneCounterInsideForm ==
    (loaded /\ formPresent) =>
        /\ Cardinality(NodesInForm) = 1
        /\ counter \in NodesInForm

\* C4: on a page without a form no step of the script changes a text, a
\* checked state or the set of nodes, nothing is written and no listener is
\* ever registered.
C4_NoFormNoEffect ==
    [][~formPresent =>
          /\ textContent' = textContent
          /\ writes' = <<>>
          /\ changeListeners' = {}
          /\ ~selectAllListener'
          /\ ScriptStep => UNCHANGED <<cbChecked, selectAllChecked>>]_vars

\* C4 witness: a page without a form that has a .selected-count node and a
\* checked checkbox, after the setup and after a delivered checkbox click.
C4_Witness ==
    /\ ~formPresent /\ loaded
    /\ "outA" \in DOMAIN textContent
    /\ event.phase = "done" /\ event.kind = "checkbox" /\ event.toggled
    /\ cbChecked[event.target]

\* C6: the script never throws; when the form has no select-all control
\* the setup registers no select-all listener, the counter node exists, every
\* snapshot checkbox carries the listener, and a delivered checkbox change
\* recomputes the counter.
C6_NoSelectAllNoError ==
    /\ error = "none"
    /\ (loaded /\ formPresent /\ selectAllLoc # "inForm") =>
          /\ selectAll = "null"
          /\ ~selectAllListener
          /\ counter \in DOMAIN textContent
          /\ changeListeners = Range(checkboxes)
          /\ (event.phase = "done" /\ event.kind = "checkbox"
                /\ event.target \in Range(checkboxes)) =>
                /\ event.handler = "updateCounter"
                /\ Len(writes) = 1
                /\ ThreeWayRule(writes[1], Cardinality(CheckedInSnapshot))

\* C6 witness: no select-all control anywhere, and a click on a snapshot
\* checkbox has been handled.
C6_Witness ==
    /\ Settled /\ selectAllLoc = "absent"
    /\ event.kind = "checkbox" /\ event.toggled
    /\ event.target \in Range(checkboxes)
    /\ cbChecked[event.target]

\* C7: no step of the script changes the checked state of the select-all
\* control, and a step of the script that changes the checked state of a
\* log_ids checkbox is the select-all handler; the checkbox handler and the
\* setup leave every checked state as it was.
C7_OnlySelectAllSetsChecked ==
    [][ScriptStep =>
          /\ selectAllChecked' = selectAllChecked
          /\ (cbChecked' # cbChecked) => event'.handler = "selectAll"]_vars

\* C7 witness: the checkbox handler ran after a click that unticked a
\* snapshot checkbox, and the select-all control is still ticked.
C7_Witness ==
    /\ Settled /\ selectAllLoc = "inForm" /\ selectAllChecked
    /\ event.kind = "checkbox" /\ event.handler = "updateCounter" /\ event.toggled
    /\ ~cbChecked[event.target]

\* C8: when the last handler called updateCounter and a checkbox change
\* event arrives with no checked state changed since, the second call writes
\* the same text and leaves the page as the first call left it.
C8_RecomputeIdempotent ==
    [][(/\ event.phase = "pending" /\ event.kind = "checkbox" /\ ~event.toggled
        /\ event.target \in changeListeners
        /\ Len(writes) = 1) =>
          /\ event'.handler = "updateCounter"
          /\ writes' = writes
          /\ UNCHANGED <<dom, closure, listeners, error>>]_vars

\* C8 witness: updateCounter has run again on an unchanged page that shows
\* a count of two or more.
C8_Witness ==
    /\ Settled
    /\ event.kind = "checkbox" /\ ~event.toggled /\ event.handler = "updateCounter"
    /\ Len(writes) = 1
    /\ Cardinality(CheckedInSnapshot) >= 2

\* C9: the select-all handler assigns the counter text exactly once, and the
\* text assigned is the one for the final count (the whole snapshot, or
\* zero), never the one of a partly updated snapshot.
C9_SelectAllWritesOnce ==
    (event.phase = "done" /\ event.handler = "selectAll") =>
        /\ Len(writes) = 1
        /\ ThreeWayRule(writes[1], IF selectAllChecked THEN Len(checkboxes) ELSE 0)

\* C9 witness: select-all was ticked on a snapshot of three checkboxes.
C9_Witness ==
    /\ event.phase = "done" /\ event.handler = "selectAll" /\ event.toggled
    /\ selectAllChecked
    /\ Len(checkboxes) = 3
    /\ Len(writes) = 1

\* C10: the snapshot never changes after the setup; a checkbox added to the
\* form later is not counted in the counter text, is not set by any handler,
\* and its change events run no handler and write nothing.
C10_SnapshotIsFixed ==
    /\ [][loaded => checkboxes' = checkboxes]_vars
    /\ [][event.phase = "pending" =>
             \A b \in AddedBoxes : cbChecked'[b] = cbChecked[b]]_vars
    /\ [](Settled /\ AddedBoxes # {} =>
             ThreeWayRule(CounterShown, Cardinality(CheckedInSnapshot)))
    /\ [](event.phase = "done" /\ event.kind = "checkbox"
             /\ event.target \in AddedBoxes =>
                 event.handler = "none" /\ writes = <<>>)

\* C10 witness: a checked checkbox was added to the form, then select-all
\* was unticked: the added checkbox is still checked and the counter shows
\* "none selected".
C10_Witness ==
    /\ Settled /\ event.handler = "selectAll" /\ ~selectAllChecked
    /\ Len(checkboxes) >= 2
    /\ \E b \in AddedBoxes : cbChecked[b]
    /\ CounterShown = MsgNone

====
